---- MODULE Spec2Model ----
(***************************************************************************)
(* Model of the Phoenix dashboard (app.py): the scoring pipeline of        *)
(* create_heatmap_figure (pandas rolling sum / mean / median followed by   *)
(* fillna(0) and a strict threshold), and the update_dashboard callback.   *)
(*                                                                         *)
(* Numbers: a sample is <<v>> for an integer v, or the missing marker NaN  *)
(* (the empty tuple); a score is an exact rational <<numerator,            *)
(* denominator>> with denominator > 0, or NaN.  Positions are 0-based as   *)
(* in pandas; the sequence s holds position j in s[j + 1].                 *)
(***************************************************************************)
EXTENDS Integers, Sequences, FiniteSets, TLC

\* float('nan'): a missing sample or an undefined windowed result
NaN == <<>>
\* Python's None: a cleared threshold input, or no genome to select.  A
\* genome accession string a is held as <<a>> so that it compares with None.
None == <<>>

\* ------------------------------------------------------------------ bounds
\* Every signal over SmallVals of length 1..MaxLen is scored.
MaxLen == 4
\* Structured signals (constant, one outlier, step) have lengths up to MaxN.
MaxN == 87
\* The replaced sample of an outlier signal.
Extreme == 1000

\* ------------------------------------------------- rationals (float values)
Rat(n, d) == <<n, d>>
Zero == Rat(0, 1)
RatGT(a, b) == a[1] * b[2] > b[1] * a[2]
RatEQ(a, b) == a[1] * b[2] = b[1] * a[2]
RatLT(a, b) == a[1] * b[2] < b[1] * a[2]
IsNaN(x) == x = NaN

\* -------------------------------------------- pandas Series.rolling(...)
\* window sizes written in create_heatmap_figure
MwsWindow == 85
MwaWindow == 70
MedianWindow == 60
MinPeriods == 1

Clip(x, lo, hi) == IF x < lo THEN lo ELSE IF x > hi THEN hi ELSE x

\* an offset of window // 2, which shifts an even window one to the right
CenterOffsetShifted(w) == w \div 2
\* FixedWindowIndexer with center=True: offset = (window - 1) // 2,
\* end = i + 1 + offset, start = end - window, both clipped to [0, N].
CenterOffset(w) == (w - 1) \div 2
WinEnd(i, w, N) == Clip(i + 1 + CenterOffset(w), 0, N)
WinStart(i, w, N) == Clip(i + 1 + CenterOffset(w) - w, 0, N)
\* the positions rolling(window=w, center=True) reduces for position i
Window(i, w, N) == WinStart(i, w, N)..(WinEnd(i, w, N) - 1)

\* A rolling aggregation slides over the series keeping running totals of
\* the observations added and removed: Cum*(s, n)[k + 1] is the total over
\* positions 0..k-1, and a window [lo, hi) holds the difference.
Sample(x) == IF IsNaN(x) THEN 0 ELSE x[1]

\* running number of present (non-NaN) samples over positions lo..hi-1,
\* continuing from the total base
RECURSIVE RunNobs(_, _, _, _)
RunNobs(s, lo, hi, base) ==
  IF hi - lo = 1 THEN <<base + (IF IsNaN(s[hi]) THEN 0 ELSE 1)>>
  ELSE LET mid == (lo + hi) \div 2
           left == RunNobs(s, lo, mid, base)
       IN left \o RunNobs(s, mid, hi, left[mid - lo])
CumNobs(s, n) == IF n = 0 THEN <<0>> ELSE <<0>> \o RunNobs(s, 0, n, 0)

\* running sum of the present samples
RECURSIVE RunSum(_, _, _, _)
RunSum(s, lo, hi, base) ==
  IF hi - lo = 1 THEN <<base + Sample(s[hi])>>
  ELSE LET mid == (lo + hi) \div 2
           left == RunSum(s, lo, mid, base)
       IN left \o RunSum(s, mid, hi, left[mid - lo])
CumSum(s, n) == IF n = 0 THEN <<0>> ELSE <<0>> \o RunSum(s, 0, n, 0)

\* running number of present samples <= v
RECURSIVE RunLE(_, _, _, _, _)
RunLE(s, lo, hi, base, v) ==
  IF hi - lo = 1 THEN <<base + (IF ~IsNaN(s[hi]) /\ s[hi][1] <= v THEN 1 ELSE 0)>>
  ELSE LET mid == (lo + hi) \div 2
           left == RunLE(s, lo, mid, base, v)
       IN left \o RunLE(s, mid, hi, left[mid - lo], v)
CumLE(s, n, v) == IF n = 0 THEN <<0>> ELSE <<0>> \o RunLE(s, 0, n, 0, v)

\* rolling sum with min_periods left at its default, the window size
RollingSumFullWindows(s, w) ==
  LET N == Len(s)
      nobs == CumNobs(s, N)
      sum_x == CumSum(s, N)
  IN [k \in 1..N |->
        LET lo == WinStart(k - 1, w, N)
            hi == WinEnd(k - 1, w, N)
        IN IF nobs[hi + 1] - nobs[lo + 1] < w THEN NaN
           ELSE Rat(sum_x[hi + 1] - sum_x[lo + 1], 1)]

\* Series.rolling(window=w, center=True, min_periods=1).sum():
\* NaN where the window holds fewer than min_periods observations
RollingSum(s, w) ==
  LET N == Len(s)
      nobs == CumNobs(s, N)
      sum_x == CumSum(s, N)
  IN [k \in 1..N |->
        LET lo == WinStart(k - 1, w, N)
            hi == WinEnd(k - 1, w, N)
        IN IF nobs[hi + 1] - nobs[lo + 1] < MinPeriods THEN NaN
           ELSE Rat(sum_x[hi + 1] - sum_x[lo + 1], 1)]

\* rolling mean dividing by the nominal width instead of the observations
RollingMeanNominal(s, w) ==
  LET N == Len(s)
      nobs == CumNobs(s, N)
      sum_x == CumSum(s, N)
  IN [k \in 1..N |->
        LET lo == WinStart(k - 1, w, N)
            hi == WinEnd(k - 1, w, N)
            n == nobs[hi + 1] - nobs[lo + 1]
        IN IF n < MinPeriods THEN NaN ELSE Rat(sum_x[hi + 1] - sum_x[lo + 1], w)]

\* Series.rolling(window=w, center=True, min_periods=1).mean()
RollingMean(s, w) ==
  LET N == Len(s)
      nobs == CumNobs(s, N)
      sum_x == CumSum(s, N)
  IN [k \in 1..N |->
        LET lo == WinStart(k - 1, w, N)
            hi == WinEnd(k - 1, w, N)
            n == nobs[hi + 1] - nobs[lo + 1]
        IN IF n < MinPeriods THEN NaN ELSE Rat(sum_x[hi + 1] - sum_x[lo + 1], n)]

\* Series.rolling(window=w, center=True, min_periods=1).median():
\* the middle observation of the window in sorted order, or the mean of
\* the two middle ones when their number is even
RollingMedian(s, w) ==
  LET N == Len(s)
      nobs == CumNobs(s, N)
      vs == {s[k][1] : k \in {m \in 1..N : ~IsNaN(s[m])}}
      \* <<v, running number of observations <= v>> for every value v
      le == {<<v, CumLE(s, N, v)>> : v \in vs}
  IN [k \in 1..N |->
        LET lo == WinStart(k - 1, w, N)
            hi == WinEnd(k - 1, w, N)
            n == nobs[hi + 1] - nobs[lo + 1]
            \* the r-th smallest observation of the window, r = 1..n
            Kth(r) == LET ok == {c[1] : c \in {d \in le : d[2][hi + 1] - d[2][lo + 1] >= r}}
                      IN CHOOSE v \in ok : \A u \in ok : v <= u
        IN IF n < MinPeriods THEN NaN
           ELSE IF n % 2 = 1 THEN Rat(Kth((n + 1) \div 2), 1)
           ELSE Rat(Kth(n \div 2) + Kth(n \div 2 + 1), 2)]

\* Series / 85 (NaN stays NaN)
DivBy(x, k) == IF IsNaN(x) THEN NaN ELSE Rat(x[1], x[2] * k)
\* fillna(0) left out
FillNaSkipped(x) == x
\* Series.fillna(0)
FillNa(x) == IF IsNaN(x) THEN Zero ELSE x

\* ------------------------------------------------ create_heatmap_figure
\* df.rename(columns={...}, inplace=True) on the local frame
RenameTable ==
  [caduceus_pred |-> "Predictions", dnabert2_pred |-> "DNABERT2",
   grover_pred |-> "Grover", reference_label |-> "Reference",
   median |-> "Median", mwa |-> "Moving Weight Average",
   rle |-> "Run Length Encoding", dbscan |-> "DBScan",
   ccl |-> "Connected Component Labeling", window_sum |-> "Window Summation"]
NewName(c) == IF c \in DOMAIN RenameTable THEN RenameTable[c] ELSE c
Rename(df) ==
  [n \in {NewName(c) : c \in DOMAIN df} |-> df[CHOOSE c \in DOMAIN df : NewName(c) = n]]

\* df['algo'] of the three computed algorithms, after fillna(0)
\* moving-window-sum divided by the number of observations in the window
MwsScoreByCount(s) ==
  LET r == RollingMean(s, MwsWindow) IN [k \in 1..Len(s) |-> FillNa(r[k])]
MwsScore(s) ==
  LET r == RollingSum(s, MwsWindow) IN [k \in 1..Len(s) |-> FillNa(DivBy(r[k], MwsWindow))]
MwaScore(s) ==
  LET r == RollingMean(s, MwaWindow) IN [k \in 1..Len(s) |-> FillNa(r[k])]
\* the median branch smoothing with the mean
MedianScoreByMean(s) ==
  LET r == RollingMean(s, MedianWindow) IN [k \in 1..Len(s) |-> FillNa(r[k])]
MedianScore(s) ==
  LET r == RollingMedian(s, MedianWindow) IN [k \in 1..Len(s) |-> FillNa(r[k])]

\* 1 if x < threshold_value else 0: the comparison turned round
CallBelow(x, threshold_value) == IF ~IsNaN(x) /\ RatLT(x, threshold_value) THEN 1 ELSE 0
\* 1 if x >= threshold_value else 0
CallAtOrAbove(x, threshold_value) == IF ~IsNaN(x) /\ ~RatLT(x, threshold_value) THEN 1 ELSE 0
\* 1 if x > threshold_value else 0 (a comparison with nan is False)
Call(x, threshold_value) == IF ~IsNaN(x) /\ RatGT(x, threshold_value) THEN 1 ELSE 0
\* [1 if x > threshold_value else 0 for x in df['algo']]
Intervals(algo, threshold_value) == [k \in 1..Len(algo) |-> Call(algo[k], threshold_value)]

Computed == {"mws", "mwa", "median"}
Precomputed == {"rle", "dbscan", "ccl"}
PrecomputedColumn ==
  [rle |-> "Run Length Encoding", dbscan |-> "DBScan", ccl |-> "Connected Component Labeling"]

Raised(e) == [raised |-> TRUE, exception |-> e]
Scored(df, algo, interval) ==
  [raised |-> FALSE,
   df |-> [c \in DOMAIN df \cup {"algo", "predicted_interval"} |->
             IF c = "algo" THEN algo
             ELSE IF c = "predicted_interval" THEN interval ELSE df[c]]]

\* a scoring chain that smooths and thresholds the precomputed column too
ScoringSmoothed(df, algorithm, threshold_value) ==
  IF algorithm \in Computed \cup Precomputed THEN
    LET col == IF algorithm \in Computed THEN "Predictions" ELSE PrecomputedColumn[algorithm] IN
    IF col \notin DOMAIN df THEN Raised("KeyError")
    ELSE LET s == df[col]
             algo == IF algorithm = "mws" THEN MwsScore(s)
                     ELSE IF algorithm = "median" THEN MedianScore(s)
                     ELSE MwaScore(s)
         IN IF threshold_value = None
            THEN IF Len(algo) > 0 THEN Raised("TypeError") ELSE Scored(df, algo, <<>>)
            ELSE Scored(df, algo, Intervals(algo, threshold_value))
  ELSE [raised |-> FALSE, df |-> df]
\* the if / elif chain "add Scoring Algorithm": the frame with its two new
\* columns, the frame unchanged when no branch matches, or an exception
\* (KeyError for an absent column, TypeError for x > None)
Scoring(df, algorithm, threshold_value) ==
  IF algorithm \in Computed THEN
    IF "Predictions" \notin DOMAIN df THEN Raised("KeyError")
    ELSE LET s == df["Predictions"]
             algo == IF algorithm = "mws" THEN MwsScore(s)
                     ELSE IF algorithm = "mwa" THEN MwaScore(s)
                     ELSE MedianScore(s)
         IN IF threshold_value = None
            THEN IF Len(algo) > 0 THEN Raised("TypeError") ELSE Scored(df, algo, <<>>)
            ELSE Scored(df, algo, Intervals(algo, threshold_value))
  ELSE IF algorithm \in Precomputed THEN
    IF PrecomputedColumn[algorithm] \notin DOMAIN df THEN Raised("KeyError")
    ELSE Scored(df, df[PrecomputedColumn[algorithm]], df[PrecomputedColumn[algorithm]])
  ELSE [raised |-> FALSE, df |-> df]

\* threshold_defaults (0.4, 0.2, 0.7, 0.3, 0.5, 0.4)
threshold_defaults_init ==
  [mws |-> Rat(2, 5), mwa |-> Rat(1, 5), rle |-> Rat(7, 10),
   dbscan |-> Rat(3, 10), median |-> Rat(1, 2), ccl |-> Rat(2, 5)]

\* ------------------------------------------------------- module-level data
\* data/Accessions.csv after drop_duplicates, sort_values('Organism Name')
\* and dropna(subset=['phylum']); two of the seven taxonomic levels are
\* carried.  No genome belongs to the Phaster dataset.
Row(a, org, ph, ge, cas, pho, dep, pha) ==
  [Assembly_short |-> <<a>>, Organism_Name |-> org, phylum |-> ph, genus |-> ge,
   Casjens |-> cas, Phoenix |-> pho, DEPHT |-> dep, Phaster |-> pha]
accession_df_init ==
  << Row("GCF_A", "Bacillus subtilis", "Firmicutes", "Bacillus", 1, 1, 0, 0),
     Row("GCF_B", "Escherichia coli", "Proteobacteria", "Escherichia", 1, 1, 1, 0),
     Row("GCF_C", "Salmonella enterica", "Proteobacteria", "Salmonella", 0, 1, 1, 0),
     Row("GCF_D", "Staphylococcus aureus", "Firmicutes", "Staphylococcus", 0, 1, 0, 0),
     Row("GCF_E", "Streptomyces coelicolor", "Actinobacteria", "Streptomyces", 0, 0, 1, 0) >>
\* the order sorted() gives the taxon names
SortKey ==
  [Actinobacteria |-> 1, Bacillus |-> 2, Escherichia |-> 3, Firmicutes |-> 4,
   Proteobacteria |-> 5, Salmonella |-> 6, Staphylococcus |-> 7, Streptomyces |-> 8]

dataset_filter_options == {"Casjens", "Phoenix", "DEPHT", "Phaster"}
taxonomic_levels == {"phylum", "genus"}
algorithm_options == {"mws", "mwa", "median"}
initial_taxon == "phylum"
initial_taxon_filter == "No Filter"
initial_dataset == "Phoenix"
initial_algorithm == "mws"

\* ------------------------------------------------------- the dataset files
Str(x) == IF x = None THEN "None" ELSE x[1]
\* os.path.join('data/combined', f'processed_{accession}_combined.csv')
CsvPath(accession) == <<"data/combined", "processed_", Str(accession), "_combined.csv">>

PlotColumns == {"caduceus_pred", "dnabert2_pred", "grover_pred", "reference_label", "gc"}
Frame(cols, col) == [c \in cols |-> col]
\* data/combined: GCF_A is complete, GCF_B has no file, GCF_C does not
\* parse, GCF_D lacks the precomputed columns, GCF_E has a header and no row
DataFiles ==
  [q \in {CsvPath(<<"GCF_A">>), CsvPath(<<"GCF_C">>), CsvPath(<<"GCF_D">>), CsvPath(<<"GCF_E">>)} |->
     IF q = CsvPath(<<"GCF_A">>)
       THEN [parses |-> TRUE,
             df |-> [c \in PlotColumns \cup {"rle", "dbscan", "ccl"} |->
                       IF c = "caduceus_pred" THEN << <<1>>, NaN, <<0>> >>
                       ELSE IF c = "rle" THEN << <<0>>, <<1>>, <<1>> >>
                       ELSE << <<1>>, <<1>>, <<0>> >>]]
     ELSE IF q = CsvPath(<<"GCF_C">>) THEN [parses |-> FALSE, df |-> Frame({}, <<>>)]
     ELSE IF q = CsvPath(<<"GCF_D">>)
       THEN [parses |-> TRUE, df |-> Frame(PlotColumns, << <<1>>, <<1>> >>)]
     ELSE [parses |-> TRUE, df |-> Frame(PlotColumns \cup {"rle", "dbscan", "ccl"}, <<>>)]]

\* an existence test that never fails
ExistsAlways(csv_path) == TRUE
\* os.path.exists(csv_path)
Exists(csv_path) == csv_path \in DOMAIN DataFiles

\* pd.read_csv(csv_path)
ReadCsv(csv_path) ==
  IF csv_path \notin DOMAIN DataFiles THEN [raised |-> TRUE, exception |-> "FileNotFoundError", df |-> Frame({}, <<>>)]
  ELSE IF ~DataFiles[csv_path].parses THEN [raised |-> TRUE, exception |-> "ParserError", df |-> Frame({}, <<>>)]
  ELSE [raised |-> FALSE, exception |-> "", df |-> DataFiles[csv_path].df]

\* ---------------------------------------------------------------- figures
Figure(kind, title, text, algo, interval, hline) ==
  [kind |-> kind, title |-> title, text |-> text, algo |-> algo,
   predicted_interval |-> interval, hline |-> hline]
NoFigure == Figure("none", "", <<>>, <<>>, <<>>, None)
\* the placeholder of the missing-file branch
MissingFigure(csv_path) ==
  Figure("placeholder", "Error loading data", <<"Dataset file ", csv_path, " not found.">>,
         <<>>, <<>>, None)
\* the placeholder of the except branch
ErrorFigure ==
  Figure("placeholder", "Error Loading Data",
         <<"Error loading data. Please check the data file.">>, <<>>, <<>>, None)
\* the seven-row track figure
TracksFigure(df, threshold_value) ==
  Figure("tracks", "", <<>>, df["algo"], df["predicted_interval"], threshold_value)

\* what one run of the try block gives: a figure or an exception, and
\* whether it read the file and entered the scoring chain
Returned(fig, read, scored) ==
  [raised |-> FALSE, exception |-> "", fig |-> fig, read_csv |-> read, scored |-> scored]
Threw(e, read, scored) ==
  [raised |-> TRUE, exception |-> e, fig |-> NoFigure, read_csv |-> read, scored |-> scored]

\* the plotting calls: a KeyError for an absent column; with a threshold of
\* None, add_hline(y=None) either draws or raises inside plotly
Plotted(df, threshold_value) ==
  IF ~({"Reference", "predicted_interval", "gc", "algo", "Predictions", "DNABERT2", "Grover"}
        \subseteq DOMAIN df)
    THEN {Threw("KeyError", TRUE, TRUE)}
  ELSE IF threshold_value = None
    THEN {Returned(TracksFigure(df, threshold_value), TRUE, TRUE), Threw("TypeError", TRUE, TRUE)}
  ELSE {Returned(TracksFigure(df, threshold_value), TRUE, TRUE)}

\* the body of the try block of create_heatmap_figure
TryBody(accession, threshold_value, algorithm) ==
  LET csv_path == CsvPath(accession) IN
  IF ~Exists(csv_path) THEN {Returned(MissingFigure(csv_path), FALSE, FALSE)}
  ELSE LET loaded == ReadCsv(csv_path) IN
       IF loaded.raised THEN {Threw(loaded.exception, TRUE, FALSE)}
       ELSE LET r == Scoring(Rename(loaded.df), algorithm, threshold_value) IN
            IF r.raised THEN {Threw(r.exception, TRUE, TRUE)}
            ELSE Plotted(r.df, threshold_value)

\* an except clause that names KeyError and FileNotFoundError only
ExceptLookupErrors(o) ==
  IF o.raised /\ o.exception \in {"KeyError", "FileNotFoundError"}
  THEN Returned(ErrorFigure, o.read_csv, o.scored) ELSE o
\* except Exception as e: return the error placeholder
Except(o) == IF o.raised THEN Returned(ErrorFigure, o.read_csv, o.scored) ELSE o

\* create_heatmap_figure(dataset_filter, taxon_filter, taxon_list, accession,
\* threshold_value, algorithm): the outcomes one call can have (its first
\* three parameters are not used)
CreateHeatmapFigure(accession, threshold_value, algorithm) ==
  {Except(o) : o \in TryBody(accession, threshold_value, algorithm)}

\* --------------------------------------------------------- update_dashboard
RECURSIVE Sorted(_)
Sorted(S) ==
  IF S = {} THEN <<>>
  ELSE LET m == CHOOSE x \in S : \A y \in S : SortKey[x] <= SortKey[y]
       IN <<m>> \o Sorted(S \ {m})
Option(label, value) == [label |-> label, value |-> value]
Values(options) == {options[k].value : k \in 1..Len(options)}
\* accession_df[accession_df[dataset_filter] == 1]
FilterByDataset(adf, dataset_filter) == SelectSeq(adf, LAMBDA r : r[dataset_filter] = 1)
\* filtered_df[filtered_df[taxon_level].astype(str) == str(taxon_filter)]
FilterByTaxon(filtered_df, taxon_level, taxon_filter) ==
  SelectSeq(filtered_df, LAMBDA r : r[taxon_level] = taxon_filter)

\* update_dashboard listing the genomes by the filter that came in, not by
\* the filter it has just validated
SelectByIncomingFilter(adf, dataset_filter, taxon_level, taxon_filter, selected_accession) ==
  LET filtered_df == FilterByDataset(adf, dataset_filter)
      taxon_options == Sorted({filtered_df[k][taxon_level] : k \in 1..Len(filtered_df)})
      taxon_dropdown_options ==
        <<Option("No Filter", "no_filter")>>
          \o [k \in 1..Len(taxon_options) |-> Option(taxon_options[k], taxon_options[k])]
      filter == IF taxon_filter = "" \/ taxon_filter \notin Values(taxon_dropdown_options)
                THEN "no_filter" ELSE taxon_filter
      df_for_genome_list ==
        IF taxon_filter # "no_filter" THEN FilterByTaxon(filtered_df, taxon_level, taxon_filter)
        ELSE filtered_df
      genome_options ==
        [k \in 1..Len(df_for_genome_list) |->
           Option(<<df_for_genome_list[k].Assembly_short[1], " - ", df_for_genome_list[k].Organism_Name>>,
                  df_for_genome_list[k].Assembly_short)]
      accession ==
        IF genome_options = <<>> \/ selected_accession \notin Values(genome_options)
        THEN (IF df_for_genome_list # <<>> THEN df_for_genome_list[1].Assembly_short ELSE None)
        ELSE selected_accession
  IN [taxon_options |-> taxon_dropdown_options, taxon_filter |-> filter,
      genome_options |-> genome_options, selected_accession |-> accession]
\* update_dashboard without the test of line 500: the genome that came in
\* is returned whether or not it is still listed
SelectKeepingGenome(adf, dataset_filter, taxon_level, taxon_filter, selected_accession) ==
  LET filtered_df == FilterByDataset(adf, dataset_filter)
      taxon_options == Sorted({filtered_df[k][taxon_level] : k \in 1..Len(filtered_df)})
      taxon_dropdown_options ==
        <<Option("No Filter", "no_filter")>>
          \o [k \in 1..Len(taxon_options) |-> Option(taxon_options[k], taxon_options[k])]
      filter == IF taxon_filter = "" \/ taxon_filter \notin Values(taxon_dropdown_options)
                THEN "no_filter" ELSE taxon_filter
      df_for_genome_list ==
        IF filter # "no_filter" THEN FilterByTaxon(filtered_df, taxon_level, filter)
        ELSE filtered_df
      genome_options ==
        [k \in 1..Len(df_for_genome_list) |->
           Option(<<df_for_genome_list[k].Assembly_short[1], " - ", df_for_genome_list[k].Organism_Name>>,
                  df_for_genome_list[k].Assembly_short)]
  IN [taxon_options |-> taxon_dropdown_options, taxon_filter |-> filter,
      genome_options |-> genome_options, selected_accession |-> selected_accession]
\* lines 473-504 of update_dashboard: the option lists and the selections
Select(adf, dataset_filter, taxon_level, taxon_filter, selected_accession) ==
  LET filtered_df == FilterByDataset(adf, dataset_filter)
      taxon_options == Sorted({filtered_df[k][taxon_level] : k \in 1..Len(filtered_df)})
      taxon_dropdown_options ==
        <<Option("No Filter", "no_filter")>>
          \o [k \in 1..Len(taxon_options) |-> Option(taxon_options[k], taxon_options[k])]
      filter == IF taxon_filter = "" \/ taxon_filter \notin Values(taxon_dropdown_options)
                THEN "no_filter" ELSE taxon_filter
      df_for_genome_list ==
        IF filter # "no_filter" THEN FilterByTaxon(filtered_df, taxon_level, filter)
        ELSE filtered_df
      genome_options ==
        [k \in 1..Len(df_for_genome_list) |->
           Option(<<df_for_genome_list[k].Assembly_short[1], " - ", df_for_genome_list[k].Organism_Name>>,
                  df_for_genome_list[k].Assembly_short)]
      accession ==
        IF genome_options = <<>> \/ selected_accession \notin Values(genome_options)
        THEN (IF df_for_genome_list # <<>> THEN df_for_genome_list[1].Assembly_short ELSE None)
        ELSE selected_accession
  IN [taxon_options |-> taxon_dropdown_options, taxon_filter |-> filter,
      genome_options |-> genome_options, selected_accession |-> accession]

\* the module-level frame after a call: update_dashboard binds its filtered
\* frames to local names and leaves accession_df alone
AccessionDfRebound(adf, dataset_filter) == FilterByDataset(adf, dataset_filter)
AccessionDfAfter(adf, dataset_filter) == adf

\* ---------------------------------------------------------------- inputs
Const(n, v) == [k \in 1..n |-> <<v>>]
\* a constant signal with the sample at position p replaced by x
Outlier(n, c, p, x) == [k \in 1..n |-> IF k = p + 1 THEN <<x>> ELSE <<c>>]
\* zeros before position p, ones from p on
Step(n, p) == [k \in 1..n |-> IF k <= p THEN <<0>> ELSE <<1>>]
EndToEnd == <<<<0>>, <<0>>, <<0>>, <<1>>, <<1>>, <<1>>, <<1>>, <<1>>, <<0>>, <<0>>, <<0>>>>

SmallVals == {<<0>>, <<1>>, NaN}
SmallSignals == UNION {[1..n -> SmallVals] : n \in 1..MaxLen}
StructLens == (1..MaxLen) \cup {31, 61} \cup ((MaxN - 3)..MaxN)
ConstSignals == {Const(n, v) : n \in StructLens, v \in {1, 2}}
OutlierLens == (2..MaxLen) \cup {31, MaxN}
OutlierSignals ==
  UNION {{Outlier(n, 1, p, x) : p \in 0..(n - 1), x \in {Extreme, 0 - Extreme}} :
           n \in OutlierLens}
StepSignals == {Step(n, n \div 2) : n \in StructLens}
Signals == SmallSignals \cup ConstSignals \cup OutlierSignals \cup StepSignals \cup {EndToEnd}
Thresholds == {Zero, Rat(1, 5), Rat(2, 5), Rat(1, 2), Rat(1, 1)}

\* values a request can carry for the threshold and the algorithm
ThresholdInputs == {None, Rat(1, 5), Rat(2, 5), Rat(1, 2)}
AlgorithmValues == Computed \cup Precomputed \cup {"other"}
Users == {"u1", "u2"}
\* control changes made in one run of the dashboard
MaxChanges == 2

VARIABLES
  scorer,              \* the scoring step on its own: inputs, pc, scored frame
  accession_df,        \* module level: the accession table
  threshold_defaults,  \* module level: default threshold per algorithm
  sessions,            \* per browser session: controls, outputs, running callback
  changes              \* number of control changes so far
vars == <<scorer, accession_df, threshold_defaults, sessions, changes>>

ScorerIdle ==
  [pc |-> "idle", df |-> [c \in {"Predictions"} |-> <<>>],
   algorithm |-> initial_algorithm, threshold_value |-> Zero, raised |-> FALSE]

\* the control values of app.layout
InitialControls ==
  [dataset_filter |-> initial_dataset, taxon_level |-> initial_taxon,
   taxon_filter |-> initial_taxon_filter,
   selected_accession |-> accession_df_init[1].Assembly_short,
   threshold_value |-> threshold_defaults_init["mwa"], algorithm |-> initial_algorithm]
\* dropdown_options: one entry per row of accession_df
dropdown_options ==
  [k \in 1..Len(accession_df_init) |->
     Option(<<accession_df_init[k].Assembly_short[1], " - ", accession_df_init[k].Organism_Name>>,
            accession_df_init[k].Assembly_short)]
\* Series.unique(): the values in order of first appearance
RECURSIVE Unique(_, _)
Unique(col, seen) ==
  IF col = <<>> THEN <<>>
  ELSE IF Head(col) \in seen THEN Unique(Tail(col), seen)
  ELSE <<Head(col)>> \o Unique(Tail(col), seen \cup {Head(col)})
\* taxonomic_filter: accession_df[initial_taxon].unique()
taxonomic_filter ==
  LET taxa == Unique([k \in 1..Len(accession_df_init) |-> accession_df_init[k][initial_taxon]], {})
  IN [k \in 1..Len(taxa) |-> Option(taxa[k], taxa[k])]
NoSelection ==
  [taxon_options |-> <<>>, taxon_filter |-> "", genome_options |-> <<>>, selected_accession |-> None]
NoOutcome == Returned(NoFigure, FALSE, FALSE)

\* a session as the page is loaded: the layout's values, and the callback
\* about to run for the first time; threshold_edited remembers whether the
\* user has typed into the threshold input since
InitialSession ==
  [pc |-> "called", controls |-> InitialControls, req |-> InitialControls,
   taxon_options |-> taxonomic_filter, genome_options |-> dropdown_options,
   figure |-> NoFigure, local |-> NoSelection, outcome |-> NoOutcome, calls |-> 0,
   threshold_edited |-> FALSE]

ModuleInit ==
  /\ accession_df = accession_df_init
  /\ threshold_defaults = threshold_defaults_init

Init ==
  /\ ModuleInit
  /\ sessions = [u \in Users |-> InitialSession]
  /\ changes = 0
  /\ scorer = ScorerIdle

\* the values a user can give a control
Choices(ss, control) ==
  IF control = "dataset_filter" THEN dataset_filter_options
  ELSE IF control = "taxon_level" THEN taxonomic_levels
  ELSE IF control = "taxon_filter" THEN Values(ss.taxon_options)
  ELSE IF control = "selected_accession" THEN Values(ss.genome_options)
  ELSE IF control = "threshold_value" THEN ThresholdInputs
  ELSE AlgorithmValues

\* the user changes one control, which calls update_dashboard with the
\* values of all six inputs
ChangeControl(u) ==
  /\ sessions[u].pc = "idle"
  /\ changes < MaxChanges
  /\ \E control \in DOMAIN InitialControls :
       \E v \in Choices(sessions[u], control) :
         /\ v # sessions[u].controls[control]
         /\ LET c == [sessions[u].controls EXCEPT ![control] = v] IN
              sessions' = [sessions EXCEPT ![u].controls = c, ![u].req = c, ![u].pc = "called",
                                           ![u].threshold_edited = @ \/ control = "threshold_value"]
  /\ changes' = changes + 1
  /\ UNCHANGED <<scorer, accession_df, threshold_defaults>>

\* update_dashboard up to the call of create_heatmap_figure
UpdateDashboard(u) ==
  /\ sessions[u].pc = "called"
  /\ LET r == sessions[u].req IN
       /\ sessions' = [sessions EXCEPT
                         ![u].local = Select(accession_df, r.dataset_filter, r.taxon_level,
                                             r.taxon_filter, r.selected_accession),
                         ![u].pc = "figure"]
       /\ accession_df' = AccessionDfAfter(accession_df, r.dataset_filter)
  /\ UNCHANGED <<scorer, threshold_defaults, changes>>

\* create_heatmap_figure and the return of update_dashboard: the five
\* outputs reach the page, or the exception reaches the callback
ReturnFigure(u) ==
  /\ sessions[u].pc = "figure"
  /\ LET ss == sessions[u] IN
       \E o \in CreateHeatmapFigure(ss.local.selected_accession, ss.req.threshold_value,
                                     ss.req.algorithm) :
         sessions' =
           [sessions EXCEPT ![u] =
              IF o.raised
              THEN [ss EXCEPT !.pc = "idle", !.outcome = o, !.calls = 1]
              ELSE [ss EXCEPT !.pc = "idle", !.outcome = o, !.calls = 1,
                              !.controls.taxon_filter = ss.local.taxon_filter,
                              !.controls.selected_accession = ss.local.selected_accession,
                              !.taxon_options = ss.local.taxon_options,
                              !.genome_options = ss.local.genome_options,
                              !.figure = o.fig]]
  /\ UNCHANGED <<scorer, accession_df, threshold_defaults, changes>>

Next == \E u \in Users : ChangeControl(u) \/ UpdateDashboard(u) \/ ReturnFigure(u)
Spec == Init /\ [][Next]_vars

\* ------------------------------------------- the scoring step on its own
InitScore ==
  /\ ModuleInit
  /\ sessions = [u \in Users |-> InitialSession]
  /\ changes = 0
  /\ \E s \in Signals, a \in Computed, t \in Thresholds :
       scorer = [pc |-> "loaded", df |-> [c \in {"Predictions"} |-> s],
                 algorithm |-> a, threshold_value |-> t, raised |-> FALSE]

\* the scoring chain applied to the loaded frame
Score ==
  /\ scorer.pc = "loaded"
  /\ LET r == Scoring(scorer.df, scorer.algorithm, scorer.threshold_value) IN
       scorer' = IF r.raised THEN [scorer EXCEPT !.pc = "scored", !.raised = TRUE]
                 ELSE [scorer EXCEPT !.pc = "scored", !.df = r.df]
  /\ UNCHANGED <<accession_df, threshold_defaults, sessions, changes>>

NextScore == Score
SpecScore == InitScore /\ [][NextScore]_vars

\* ------------------------------------ properties of the scoring step
Sig == scorer.df["Predictions"]
SigLen == Len(Sig)
Algo == scorer.df["algo"]
Pred == scorer.df["predicted_interval"]
ScoredBy(a) == scorer.pc = "scored" /\ ~scorer.raised /\ scorer.algorithm = a
ScoredComputed == scorer.pc = "scored" /\ ~scorer.raised /\ scorer.algorithm \in Computed
WidthOf(a) == IF a = "mws" THEN 85 ELSE IF a = "mwa" THEN 70 ELSE 60

\* the window as the specification words it: symmetric about i
SymmetricWindow(i, w, N) == {j \in 0..(N - 1) : i - (w \div 2) <= j /\ j <= i + (w \div 2)}
\* the window with the right half one shorter for an even width
CentredWindow(i, w, N) == {j \in 0..(N - 1) : i - (w \div 2) <= j /\ j <= i + ((w - 1) \div 2)}

\* reductions of the present samples of a set of positions
PresentIn(s, W) == {j \in W : s[j + 1] # NaN}
ValuesIn(s, P) == {s[j + 1][1] : j \in P}
RECURSIVE WeightedSum(_, _, _)
WeightedSum(s, P, vals) ==
  IF vals = {} THEN 0
  ELSE LET v == CHOOSE u \in vals : TRUE
       IN v * Cardinality({j \in P : s[j + 1][1] = v}) + WeightedSum(s, P, vals \ {v})
TotalIn(s, W) == LET P == PresentIn(s, W) IN WeightedSum(s, P, ValuesIn(s, P))
\* the r-th observation in sorted order: fewer than r lie below it, at least r at or below
OrderStat(s, P, r) ==
  CHOOSE v \in ValuesIn(s, P) :
    /\ Cardinality({j \in P : s[j + 1][1] < v}) < r
    /\ Cardinality({j \in P : s[j + 1][1] <= v}) >= r
NormSumIn(s, W) == Rat(TotalIn(s, W), 85)
MeanIn(s, W) ==
  LET P == PresentIn(s, W) IN
  IF P = {} THEN Zero ELSE Rat(TotalIn(s, W), Cardinality(P))
MedianIn(s, W) ==
  LET P == PresentIn(s, W)
      n == Cardinality(P)
  IN IF n = 0 THEN Zero
     ELSE IF n % 2 = 1 THEN Rat(OrderStat(s, P, (n + 1) \div 2), 1)
     ELSE Rat(OrderStat(s, P, n \div 2) + OrderStat(s, P, n \div 2 + 1), 2)
ReduceIn(a, s, W) ==
  IF a = "mws" THEN NormSumIn(s, W) ELSE IF a = "mwa" THEN MeanIn(s, W) ELSE MedianIn(s, W)

\* C1: for mws, mwa and median, predicted_interval[i] is 1 exactly when the
\* score at i is strictly greater than the threshold and 0 otherwise; a score
\* equal to the threshold gives 0.
StrictThreshold ==
  ScoredComputed =>
    \A k \in 1..SigLen :
      /\ Pred[k] = (IF RatGT(Algo[k], scorer.threshold_value) THEN 1 ELSE 0)
      /\ RatEQ(Algo[k], scorer.threshold_value) => Pred[k] = 0
\* a score equal to the threshold was called 0, next to a score above it called 1
StrictThresholdWitness ==
  /\ ScoredBy("mws")
  /\ \E k \in 1..SigLen : RatEQ(Algo[k], scorer.threshold_value) /\ Pred[k] = 0
  /\ \E k \in 1..SigLen : RatGT(Algo[k], scorer.threshold_value) /\ Pred[k] = 1

\* C2 (as claimed): the positions reduced for i are exactly the symmetric
\* window { j : i - floor(w/2) <= j <= i + floor(w/2) } clipped to 0..N-1,
\* for w = 85, 70 and 60.
WindowSymmetric ==
  ScoredComputed =>
    \A i \in 0..(SigLen - 1) :
      Window(i, WidthOf(scorer.algorithm), SigLen)
        = SymmetricWindow(i, WidthOf(scorer.algorithm), SigLen)
\* C2 (amended): the positions reduced for i are exactly
\* { j : i - floor(w/2) <= j <= i + floor((w-1)/2) } clipped to 0..N-1
\* (symmetric for 85, one position shorter on the right for 70 and 60), and
\* the score at i is the algorithm's reduction of exactly those positions.
WindowCentred ==
  ScoredComputed =>
    \A i \in 0..(SigLen - 1) :
      LET W == CentredWindow(i, WidthOf(scorer.algorithm), SigLen) IN
      /\ Window(i, WidthOf(scorer.algorithm), SigLen) = W
      /\ RatEQ(Algo[i + 1], ReduceIn(scorer.algorithm, Sig, W))
\* an even-width window away from the right boundary: it stops one short of
\* the symmetric one, and the sample just outside it does not count
WindowCentredWitness ==
  /\ ScoredBy("median")
  /\ \E i \in 0..(SigLen - 1) :
       /\ i + 30 <= SigLen - 1
       /\ i - 30 >= 0
       /\ Window(i, 60, SigLen) = (i - 30)..(i + 29)
       /\ ~RatEQ(Algo[i + 1], ReduceIn("median", Sig, SymmetricWindow(i, 60, SigLen)))

\* C3: the moving-window-sum score at i is the sum of the values in the
\* clipped window around i divided by the nominal width 85, never by the
\* number of values in the window; for a constant signal of value v it equals
\* v wherever the window lies fully inside the sequence.
IsConst(s, v) == \A k \in 1..Len(s) : s[k] = <<v>>
Interior(i, h, N) == i - h >= 0 /\ i + h <= N - 1
MwsNominalDivisor ==
  ScoredBy("mws") =>
    /\ \A i \in 0..(SigLen - 1) :
         RatEQ(Algo[i + 1], Rat(TotalIn(Sig, SymmetricWindow(i, 85, SigLen)), 85))
    /\ \A v \in {1, 2} :
         IsConst(Sig, v) =>
           \A i \in 0..(SigLen - 1) : Interior(i, 42, SigLen) => RatEQ(Algo[i + 1], Rat(v, 1))
\* a constant signal of 2 long enough for an interior window (score 2) and
\* with a clipped first window of 43 samples (score 86/85, not 2)
MwsNominalDivisorWitness ==
  /\ ScoredBy("mws")
  /\ IsConst(Sig, 2)
  /\ \E i \in 0..(SigLen - 1) : Interior(i, 42, SigLen) /\ RatEQ(Algo[i + 1], Rat(2, 1))
  /\ RatEQ(Algo[1], Rat(86, 85))

\* C4: for every signal of length N >= 1, with or without missing values,
\* and each computed algorithm, the score series and predicted_interval each
\* have exactly N entries, every score is a defined number (0 where the
\* window holds no present value, never a missing marker) and every interval
\* entry is 0 or 1.
NoGaps ==
  ScoredComputed =>
    /\ DOMAIN Algo = 1..SigLen
    /\ DOMAIN Pred = 1..SigLen
    /\ \A k \in 1..SigLen :
         /\ Algo[k] # NaN
         /\ Len(Algo[k]) = 2
         /\ Algo[k][2] > 0
         /\ Pred[k] \in {0, 1}
         /\ PresentIn(Sig, Window(k - 1, WidthOf(scorer.algorithm), SigLen)) = {}
              => Algo[k] = Zero
\* a signal of missing values only: every window holds no present value
\* and every position is scored 0 and called 0
NoGapsWitness ==
  /\ ScoredComputed
  /\ SigLen >= 2
  /\ \A k \in 1..SigLen : Sig[k] = NaN /\ Algo[k] = Zero /\ Pred[k] = 0

\* C5 (as claimed): for every N >= 2 and every outlier position, replacing
\* one sample of a constant signal by another value leaves the median-filter
\* score equal to the constant at every position.
OneOutlier(s, c) ==
  /\ Cardinality({k \in 1..Len(s) : s[k] # <<c>>}) = 1
  /\ \A k \in 1..Len(s) : s[k] # NaN
MedianIgnoresOutlierFrom2 ==
  ScoredBy("median") =>
    \A c \in {0, 1} :
      (SigLen >= 2 /\ OneOutlier(Sig, c)) => \A k \in 1..SigLen : RatEQ(Algo[k], Rat(c, 1))
\* C5 (amended): the same for every N >= 3, where every window of width 60,
\* clipped or not, holds at least three samples.
MedianIgnoresOutlier ==
  ScoredBy("median") =>
    \A c \in {0, 1} :
      (SigLen >= 3 /\ OneOutlier(Sig, c)) => \A k \in 1..SigLen : RatEQ(Algo[k], Rat(c, 1))
\* a long constant signal of 1 with its first sample replaced by the extreme
\* value: the clipped first window contains the outlier and still scores 1
MedianIgnoresOutlierWitness ==
  /\ ScoredBy("median")
  /\ SigLen > 60
  /\ OneOutlier(Sig, 1)
  /\ Sig[1] = <<Extreme>>
  /\ RatEQ(Algo[1], Rat(1, 1))

\* C6 (as claimed): for a constant signal of value v > 0 of any length, the
\* moving-window-sum score strictly increases from position to position when
\* moving from either boundary toward the interior, over all positions whose
\* window is still clipped by a sequence boundary.
ClippedLeft(i) == i - 42 < 0
ClippedRight(i, N) == i + 42 > N - 1
Clipped(i, N) == ClippedLeft(i) \/ ClippedRight(i, N)
EdgeBiasAnyLength ==
  ScoredBy("mws") =>
    \A v \in {1, 2} :
      IsConst(Sig, v) =>
        \A i \in 0..(SigLen - 2) :
          /\ (Clipped(i, SigLen) /\ 2 * (i + 1) <= SigLen - 1) => RatLT(Algo[i + 1], Algo[i + 2])
          /\ (Clipped(i + 1, SigLen) /\ 2 * i >= SigLen - 1) => RatLT(Algo[i + 2], Algo[i + 1])
\* C6 (amended): the score strictly increases from i to its neighbour toward
\* the interior whenever the window of i is clipped by the near boundary and
\* the neighbour's window is not clipped by the far boundary (every clipped
\* position when N >= 85); windows clipped at both ends score the same.
EdgeBias ==
  ScoredBy("mws") =>
    \A v \in {1, 2} :
      IsConst(Sig, v) =>
        \A i \in 0..(SigLen - 2) :
          /\ (ClippedLeft(i) /\ ~ClippedRight(i + 1, SigLen)) => RatLT(Algo[i + 1], Algo[i + 2])
          /\ (ClippedRight(i + 1, SigLen) /\ ~ClippedLeft(i)) => RatLT(Algo[i + 2], Algo[i + 1])
          /\ (ClippedLeft(i) /\ ClippedRight(i, SigLen)
                /\ ClippedLeft(i + 1) /\ ClippedRight(i + 1, SigLen)) => RatEQ(Algo[i + 1], Algo[i + 2])
\* a constant signal longer than the window: the score climbs over the 42
\* clipped positions at each end and is level in between
EdgeBiasWitness ==
  /\ ScoredBy("mws")
  /\ IsConst(Sig, 1)
  /\ SigLen >= 86
  /\ RatLT(Algo[1], Algo[2]) /\ RatLT(Algo[42], Algo[43])
  /\ RatLT(Algo[SigLen], Algo[SigLen - 1])
  /\ RatEQ(Algo[43], Algo[44])

\* C10: the moving-window-average score at i is the arithmetic mean of the
\* values in the centred window clipped at the boundaries, and the interval is
\* 1 exactly where that mean exceeds the threshold; for the signal
\* [0,0,0,1,1,1,1,1,0,0,0] with window 3 and threshold 0.5 the interval is 1 at
\* positions 3 to 7 and 0 elsewhere.
EndToEndInterval == <<0, 0, 0, 1, 1, 1, 1, 1, 0, 0, 0>>
Completed(u) == sessions[u].pc = "idle" /\ sessions[u].calls > 0
\* the file the last call of create_heatmap_figure was asked for
AskedPath(u) == CsvPath(sessions[u].local.selected_accession)
AskedFile(u) == DataFiles[AskedPath(u)]

\* C7: every call of create_heatmap_figure returns a figure and no exception
\* reaches the callback; for any accession, algorithm value (also one with no
\* scoring branch) and threshold (also None), a failure while loading or
\* scoring gives the placeholder titled 'Error Loading Data'.
LoadOrScoringFails(u) ==
  /\ AskedPath(u) \in DOMAIN DataFiles
  /\ \/ ~AskedFile(u).parses
     \/ sessions[u].req.algorithm \notin {"mws", "mwa", "median", "rle", "dbscan", "ccl"}
     \/ /\ sessions[u].req.algorithm \in {"mws", "mwa", "median"}
        /\ sessions[u].req.threshold_value = None
        /\ Len(AskedFile(u).df["caduceus_pred"]) > 0
     \/ /\ sessions[u].req.algorithm \in {"rle", "dbscan", "ccl"}
        /\ sessions[u].req.algorithm \notin DOMAIN AskedFile(u).df
AlwaysAFigure ==
  \A u \in Users :
    Completed(u) =>
      /\ ~sessions[u].outcome.raised
      /\ sessions[u].outcome.fig.kind \in {"tracks", "placeholder"}
      /\ sessions[u].figure = sessions[u].outcome.fig
      /\ LoadOrScoringFails(u) =>
           /\ sessions[u].figure.kind = "placeholder"
           /\ sessions[u].figure.title = "Error Loading Data"
\* one session scored with a cleared threshold, the other asked for an
\* algorithm without a branch: both show the error placeholder
AlwaysAFigureWitness ==
  \E u, v \in Users :
    /\ Completed(u) /\ Completed(v)
    /\ sessions[u].req.threshold_value = None /\ sessions[u].req.algorithm = "mws"
    /\ sessions[u].figure.title = "Error Loading Data"
    /\ sessions[v].req.algorithm = "other"
    /\ sessions[v].figure.title = "Error Loading Data"

\* C8: an accession with no file data/combined/processed_<accession>_combined.csv
\* gets the placeholder that names the missing file, without reading data or
\* scoring; so does the accession None passed when no genome is left.
MissingFilePlaceholder ==
  \A u \in Users :
    Completed(u) =>
      LET a == sessions[u].local.selected_accession
          name == IF a = None THEN "None" ELSE a[1]
      IN (a = None \/ a = <<"GCF_B">>) =>
           /\ sessions[u].figure.kind = "placeholder"
           /\ sessions[u].figure.text
                = <<"Dataset file ", <<"data/combined", "processed_", name, "_combined.csv">>,
                    " not found.">>
           /\ ~sessions[u].outcome.read_csv
           /\ ~sessions[u].outcome.scored
           /\ ~sessions[u].outcome.raised
\* one session left without a genome (dataset Phaster) and one on GCF_B
MissingFilePlaceholderWitness ==
  \E u, v \in Users :
    /\ Completed(u) /\ Completed(v)
    /\ sessions[u].req.dataset_filter = "Phaster"
    /\ sessions[u].controls.selected_accession = None
    /\ sessions[u].figure.title = "Error loading data"
    /\ sessions[v].controls.selected_accession = <<"GCF_B">>
    /\ sessions[v].figure.title = "Error loading data"

\* C9: no call of update_dashboard or create_heatmap_figure modifies
\* module-level state, and under any interleaving of the sessions every
\* request returns what it returns when run alone on the request's own
\* control values.
RunAlone(req) ==
  Select(accession_df_init, req.dataset_filter, req.taxon_level, req.taxon_filter,
         req.selected_accession)
RequestsIsolated ==
  /\ accession_df = accession_df_init
  /\ threshold_defaults = threshold_defaults_init
  /\ \A u \in Users :
       Completed(u) =>
         LET alone == RunAlone(sessions[u].req) IN
         /\ sessions[u].taxon_options = alone.taxon_options
         /\ sessions[u].controls.taxon_filter = alone.taxon_filter
         /\ sessions[u].genome_options = alone.genome_options
         /\ sessions[u].controls.selected_accession = alone.selected_accession
         /\ sessions[u].figure \in
              {o.fig : o \in CreateHeatmapFigure(alone.selected_accession,
                                                sessions[u].req.threshold_value,
                                                sessions[u].req.algorithm)}
\* two sessions that asked for different datasets, one still inside its
\* callback while the other has its answer
RequestsIsolatedWitness ==
  \E u, v \in Users :
    /\ Completed(u)
    /\ sessions[v].pc = "figure"
    /\ sessions[u].req.dataset_filter = "Casjens"
    /\ sessions[v].req.dataset_filter = "DEPHT"
    /\ sessions[u].controls.selected_accession # sessions[v].local.selected_accession

\* C11: for rle, dbscan and ccl on a file that holds the precomputed column,
\* the score series and predicted_interval of the track figure both equal
\* that column of the file, position by position, whatever the threshold of
\* the request: no window and no threshold is applied, and any other
\* threshold gives the same scored frame.
PrecomputedAsked(u) ==
  /\ Completed(u)
  /\ sessions[u].req.algorithm \in {"rle", "dbscan", "ccl"}
  /\ AskedPath(u) \in DOMAIN DataFiles
  /\ AskedFile(u).parses
  /\ sessions[u].req.algorithm \in DOMAIN AskedFile(u).df
PrecomputedPassThrough ==
  \A u \in Users :
    PrecomputedAsked(u) =>
      LET column == AskedFile(u).df[sessions[u].req.algorithm]
          frame == Rename(AskedFile(u).df)
      IN /\ sessions[u].req.threshold_value # None => sessions[u].figure.kind = "tracks"
         /\ sessions[u].figure.kind = "tracks" =>
              /\ sessions[u].figure.algo = column
              /\ sessions[u].figure.predicted_interval = column
         /\ \A t \in ThresholdInputs :
              Scoring(frame, sessions[u].req.algorithm, t)
                = Scoring(frame, sessions[u].req.algorithm, sessions[u].req.threshold_value)
\* rle asked on GCF_A with the threshold moved to 0.5: the figure shows the
\* file's column 0, 1, 1, which a window would have changed
PrecomputedPassThroughWitness ==
  \E u \in Users :
    /\ PrecomputedAsked(u)
    /\ sessions[u].req.algorithm = "rle"
    /\ sessions[u].req.threshold_value = Rat(1, 2)
    /\ sessions[u].figure.kind = "tracks"
    /\ sessions[u].figure.algo = << <<0>>, <<1>>, <<1>> >>
    /\ sessions[u].figure.predicted_interval = << <<0>>, <<1>>, <<1>> >>

\* C12: for mws, mwa and median and every signal, a threshold strictly below
\* every score gives predicted_interval = 1 at every position, a threshold
\* strictly above every score gives 0 at every position, and the scoring
\* raises nothing in either case.
BelowAllScores == \A i \in 1..SigLen : RatLT(scorer.threshold_value, Algo[i])
AboveAllScores == \A i \in 1..SigLen : RatGT(scorer.threshold_value, Algo[i])
DegenerateThreshold ==
  scorer.pc = "scored" /\ scorer.algorithm \in Computed =>
    /\ ~scorer.raised
    /\ Len(Pred) = SigLen
    /\ BelowAllScores => \A i \in 1..SigLen : Pred[i] = 1
    /\ AboveAllScores => \A i \in 1..SigLen : Pred[i] = 0
\* a long signal whose scores differ from one another and all lie above
\* the threshold 0: every position is called
DegenerateThresholdWitness ==
  /\ ScoredComputed
  /\ SigLen = MaxN
  /\ scorer.threshold_value = Zero
  /\ BelowAllScores
  /\ \E i, j \in 1..SigLen : ~RatEQ(Algo[i], Algo[j])
  /\ \A i \in 1..SigLen : Pred[i] = 1

\* C13: when the file of the requested accession exists and parses but holds
\* zero positions, create_heatmap_figure returns a labelled placeholder and
\* not the seven-row track figure.
EmptySignalAsked(u) ==
  /\ Completed(u)
  /\ AskedPath(u) \in DOMAIN DataFiles
  /\ AskedFile(u).parses
  /\ "caduceus_pred" \in DOMAIN AskedFile(u).df
  /\ Len(AskedFile(u).df["caduceus_pred"]) = 0
EmptySignalPlaceholder ==
  \A u \in Users :
    EmptySignalAsked(u) =>
      /\ sessions[u].figure.kind = "placeholder"
      /\ sessions[u].figure.title # ""

\* C14: as long as the user has not edited the threshold input, the
\* threshold a call scores with equals threshold_defaults of the algorithm
\* the call was made with; at startup that is the default of 'mws'.
DefaultThresholdUsed ==
  \A u \in Users :
    /\ Completed(u)
    /\ ~sessions[u].threshold_edited
    /\ sessions[u].req.algorithm \in DOMAIN threshold_defaults
    =>
      sessions[u].req.threshold_value = threshold_defaults[sessions[u].req.algorithm]

\* C15: whatever values update_dashboard is called with, the taxon filter
\* it returns is 'no_filter' or a taxon it lists, and the genome it returns
\* is an accession it lists, None exactly when it lists no genome; a filter
\* that came in unlisted is answered by 'no_filter', and a genome that came
\* in unlisted by the first listed genome.  The page shows the same once
\* the call has returned.
Selected(u) == sessions[u].pc = "figure" \/ Completed(u)
TaxaOf(dataset_filter, taxon_level) ==
  {accession_df[k][taxon_level] :
     k \in {j \in 1..Len(accession_df) : accession_df[j][dataset_filter] = 1}}
ReturnedSelectionsListed ==
  \A u \in Users :
    /\ Selected(u) =>
         LET r == sessions[u].local
             q == sessions[u].req
         IN /\ r.taxon_filter \in Values(r.taxon_options)
            /\ \/ r.taxon_filter = "no_filter"
               \/ r.taxon_filter \in TaxaOf(q.dataset_filter, q.taxon_level)
            /\ IF r.genome_options = <<>>
               THEN r.selected_accession = None
               ELSE r.selected_accession # None
                    /\ r.selected_accession \in Values(r.genome_options)
            /\ q.taxon_filter \notin Values(r.taxon_options) => r.taxon_filter = "no_filter"
            /\ q.selected_accession \notin Values(r.genome_options) /\ r.genome_options # <<>>
                 => r.selected_accession = r.genome_options[1].value
    /\ Completed(u) =>
         /\ sessions[u].controls.taxon_filter \in Values(sessions[u].taxon_options)
         /\ \/ sessions[u].controls.selected_accession \in Values(sessions[u].genome_options)
            \/ /\ sessions[u].controls.selected_accession = None
               /\ sessions[u].genome_options = <<>>
\* the filter Firmicutes and the genome GCF_A, both chosen under Phoenix, are
\* not listed under DEPHT: the call answers 'no_filter' and GCF_B, the first
\* genome of its list
ReturnedSelectionsListedWitness ==
  \E u \in Users :
    /\ Completed(u)
    /\ sessions[u].req.dataset_filter = "DEPHT"
    /\ sessions[u].req.taxon_filter = "Firmicutes"
    /\ sessions[u].req.selected_accession = <<"GCF_A">>
    /\ sessions[u].controls.taxon_filter = "no_filter"
    /\ sessions[u].controls.selected_accession = <<"GCF_B">>
    /\ sessions[u].genome_options[1].value = <<"GCF_B">>

\* C16: update_dashboard called again with the taxon filter and the genome
\* it has just returned, the dataset and the taxonomic level unchanged,
\* returns the same taxon options, taxon filter, genome options and genome
\* as the first call: one call brings the two controls to a fixed point.
CalledAgain(u) ==
  Select(accession_df, sessions[u].req.dataset_filter, sessions[u].req.taxon_level,
         sessions[u].local.taxon_filter, sessions[u].local.selected_accession)
SelectionIdempotent ==
  \A u \in Users :
    Selected(u) =>
      /\ CalledAgain(u).taxon_options = sessions[u].local.taxon_options
      /\ CalledAgain(u).taxon_filter = sessions[u].local.taxon_filter
      /\ CalledAgain(u).genome_options = sessions[u].local.genome_options
      /\ CalledAgain(u).selected_accession = sessions[u].local.selected_accession
\* a call that replaced a user's filter and genome, both chosen on the page
\* before and no longer listed, and whose answer a second call leaves alone
SelectionIdempotentWitness ==
  \E u \in Users :
    /\ Completed(u)
    /\ sessions[u].req.taxon_filter \notin {"No Filter", sessions[u].local.taxon_filter}
    /\ sessions[u].req.selected_accession # sessions[u].local.selected_accession
    /\ sessions[u].local.selected_accession # None
    /\ CalledAgain(u) = sessions[u].local

====
